---- MODULE Spec2Model ----
(***************************************************************************)
(* Model of llava/model/language_model/mpt/norm.py: the autocast-aware     *)
(* precision cast, the RMS core function, the three layer classes and the  *)
(* registry.                                                               *)
(*                                                                         *)
(* A tensor is a record [dtype, device, vals]: its dtype, the type of its  *)
(* device and the values of one trailing-dimension slice.  A value is a    *)
(* fixed-point number (an integer count of 1/Scale) or one of the IEEE     *)
(* specials inf and nan; every dtype has a rounding quantum and a largest  *)
(* finite magnitude, so that rounding to zero, overflow to inf, rsqrt(0)   *)
(* and 0 * inf behave as they do in floating point.                        *)
(***************************************************************************)
EXTENDS Integers, Sequences, FiniteSets, TLC

VARIABLES registry, autocast, layer, call

vars == <<registry, autocast, layer, call>>

(***************************************************************************)
(* Bounds                                                                  *)
(***************************************************************************)
\* length of the trailing dimension of the inputs
SliceLen == 2

(***************************************************************************)
(* Numbers                                                                 *)
(***************************************************************************)
Scale == 8 * 8

DTypes == {"float16", "bfloat16", "float32", "float64"}

LowPrecision == {"float16", "bfloat16"}

\* spacing of the representable values of a dtype, in units of 1/Scale
Quantum(d) == CASE d = "float16"  -> 4
                [] d = "bfloat16" -> 8
                [] OTHER          -> 1

\* largest finite magnitude of a dtype, in units of 1/Scale; rsqrt of the
\* smallest positive float16 value is finite, as it is in IEEE half precision
MaxFinite(d) == IF d = "float16" THEN 4 * Scale ELSE Scale * Scale * Scale * Scale

Abs(n) == IF n < 0 THEN -n ELSE n

Sgn(n) == IF n < 0 THEN -1 ELSE IF n > 0 THEN 1 ELSE 0

Fin(n) == [k |-> "fin", v |-> n]

Inf(s) == [k |-> "inf", v |-> s]

NaN == [k |-> "nan", v |-> 0]

IsFinite(a) == a.k = "fin"

\* a >= 0, b > 0: a / b rounded to the nearest integer
RoundDiv(a, b) == (2 * a + b) \div (2 * b)

\* the real number num / den (den > 0), in units of 1/Scale, rounded to dtype d
RndFrac(num, den, d) ==
    LET q == Quantum(d)
        m == RoundDiv(Abs(num), den * q) * q
    IN  IF m > MaxFinite(d) THEN Inf(Sgn(num)) ELSE Fin(Sgn(num) * m)

\* tensor.to(dtype=d) on one element
ToDType(a, d) == IF IsFinite(a) THEN RndFrac(a.v, 1, d) ELSE a

Mul(a, b, d) ==
    IF a.k = "nan" \/ b.k = "nan" THEN NaN
    ELSE IF a.k = "inf" \/ b.k = "inf"
         THEN IF Sgn(a.v) * Sgn(b.v) = 0 THEN NaN ELSE Inf(Sgn(a.v) * Sgn(b.v))
         ELSE RndFrac(a.v * b.v, Scale, d)

\* tensor + python scalar: the scalar takes the tensor's dtype
AddScalar(a, e, d) == IF IsFinite(a) THEN RndFrac(a.v + e, 1, d) ELSE a

RECURSIVE ISqrtBetween(_, _, _)
ISqrtBetween(n, lo, hi) ==
    IF lo >= hi THEN lo
    ELSE LET mid == (lo + hi + 1) \div 2
         IN  IF mid * mid <= n THEN ISqrtBetween(n, mid, hi)
             ELSE ISqrtBetween(n, lo, mid - 1)

\* floor of the square root of n >= 0
ISqrt(n) == ISqrtBetween(n, 0, Scale * Scale)

\* torch.rsqrt on one element
Rsqrt(a, d) ==
    CASE a.k = "nan" -> NaN
      [] a.k = "inf" -> IF a.v > 0 THEN Fin(0) ELSE NaN
      [] OTHER -> IF a.v < 0 THEN NaN
                  ELSE IF a.v = 0 THEN Inf(1)
                  ELSE RndFrac(ISqrt((4 * Scale * Scale * Scale) \div a.v), 2, d)

RECURSIVE SumFin(_, _)
SumFin(s, i) == IF i = 0 THEN 0 ELSE s[i].v + SumFin(s, i - 1)

\* tensor.mean(-1, keepdim=True) of one slice (the squares are never -inf)
Mean(s, d) ==
    IF \E i \in 1..Len(s) : s[i].k = "nan" THEN NaN
    ELSE IF \E i \in 1..Len(s) : s[i].k = "inf" THEN Inf(1)
    ELSE RndFrac(SumFin(s, Len(s)), Len(s), d)

(***************************************************************************)
(* Tensors and results                                                     *)
(***************************************************************************)
DeviceTypes == {"cuda", "cpu", "xla"}

NoTensor == [dtype |-> "none", device |-> "none", vals |-> <<>>]

Tensor(d, dev, vs) == [dtype |-> d, device |-> dev, vals |-> vs]

Ok(t) == [kind |-> "tensor", t |-> t]

Raise(e) == [kind |-> e, t |-> NoTensor]

NoResult == [kind |-> "none", t |-> NoTensor]

\* tensor.to(dtype=d), tensor.float(): a new tensor, the argument is not changed
To(t, d) == Tensor(d, t.device, [i \in 1..Len(t.vals) |-> ToDType(t.vals[i], d)])

\* torch's type promotion of two floating tensors of dimension >= 1
Promote(a, b) ==
    IF a = b THEN a
    ELSE IF "float64" \in {a, b} THEN "float64"
    ELSE "float32"

\* shapes that broadcast against an input slice of length n
Broadcasts(m, n) == m = n \/ m = 1

At(vs, i) == IF Len(vs) = 1 THEN vs[1] ELSE vs[i]

(***************************************************************************)
(* Ambient autocast state (torch's thread-local autocast settings)         *)
(***************************************************************************)
AutocastDTypes == LowPrecision

\* torch.is_autocast_enabled(), line 21: called without a device type it
\* reports the accelerator (cuda) flag
is_autocast_enabled(amb) == amb.enabled["cuda"]

\* mutant: the with block does not switch autocast off
AutocastEnter_Ignored(amb, dev, e) == amb

\* entering `with torch.autocast(enabled=e, device_type=dev)`, lines 47 and 80
AutocastEnter(amb, dev, e) == [amb EXCEPT !.enabled[dev] = e]

\* mutant: the flag is not restored when the block is left
AutocastExit_NoRestore(inner, amb, dev) == inner

\* leaving the with block (normally or by an exception) restores the flag
AutocastExit(inner, amb, dev) == [inner EXCEPT !.enabled[dev] = amb.enabled[dev]]

\* ops of the accelerator autocast float32 list (pow, rsqrt, layer_norm) run in
\* float32 on low-precision cuda tensors while cuda autocast is enabled
OpDType(t, amb) ==
    IF amb.enabled["cuda"] /\ t.device = "cuda" /\ t.dtype \in LowPrecision
    THEN "float32" ELSE t.dtype

(***************************************************************************)
(* _cast_if_autocast_enabled, lines 20-29                                  *)
(***************************************************************************)
\* mutant: the cast is applied whether or not autocast is enabled
_cast_AlwaysCasts(tensor, amb) ==
    IF tensor.device = "cuda" THEN Ok(To(tensor, amb.gpu_dtype))
    ELSE IF tensor.device = "cpu" THEN Ok(To(tensor, amb.cpu_dtype))
    ELSE Raise("NotImplementedError")

\* mutant: one autocast dtype is used for every device
_cast_OneDType(tensor, amb) ==
    IF is_autocast_enabled(amb)
    THEN IF tensor.device \in {"cuda", "cpu"} THEN Ok(To(tensor, amb.gpu_dtype))
         ELSE Raise("NotImplementedError")
    ELSE Ok(tensor)

\* mutant: a tensor on another device type is passed on without a cast
_cast_NoRaise(tensor, amb) ==
    IF is_autocast_enabled(amb)
    THEN IF tensor.device = "cuda" THEN Ok(To(tensor, amb.gpu_dtype))
         ELSE IF tensor.device = "cpu" THEN Ok(To(tensor, amb.cpu_dtype))
         ELSE Ok(tensor)
    ELSE Ok(tensor)

_cast_if_autocast_enabled(tensor, amb) ==
    IF is_autocast_enabled(amb)
    THEN IF tensor.device = "cuda" THEN Ok(To(tensor, amb.gpu_dtype))
         ELSE IF tensor.device = "cpu" THEN Ok(To(tensor, amb.cpu_dtype))
         ELSE Raise("NotImplementedError")
    ELSE Ok(tensor)

(***************************************************************************)
(* rms_norm, lines 53-57                                                   *)
(***************************************************************************)
\* x * torch.rsqrt(x.pow(2).mean(-1, keepdim=True) + eps), every op rounding
\* its result to the dtype d it runs in
RmsCompute(d, x, eps) ==
    LET n  == Len(x.vals)
        sq == [i \in 1..n |-> Mul(x.vals[i], x.vals[i], d)]
        r  == Rsqrt(AddScalar(Mean(sq, d), eps, d), d)
    IN  Tensor(d, x.device, [i \in 1..n |-> Mul(x.vals[i], r, d)])

\* mutant: rms_norm upcasts its input to float32 itself
RmsOutput_Float32(x, eps, amb) == RmsCompute("float32", To(x, "float32"), eps)

\* mutant: eps is left out of the denominator
RmsOutput_NoEps(x, eps, amb) == RmsCompute(OpDType(x, amb), x, 0)

\* line 54: output = x * torch.rsqrt(x.pow(2).mean(-1, keepdim=True) + eps)
RmsOutput(x, eps, amb) == RmsCompute(OpDType(x, amb), x, eps)

\* output * weight: same device and broadcastable shapes, or a RuntimeError
TensorMul(a, w) ==
    IF a.device # w.device \/ ~Broadcasts(Len(w.vals), Len(a.vals))
    THEN Raise("RuntimeError")
    ELSE LET d == Promote(a.dtype, w.dtype)
         IN  Ok(Tensor(d, a.device,
                       [i \in 1..Len(a.vals) |-> Mul(a.vals[i], At(w.vals, i), d)]))

rms_norm(x, weight, eps, amb) ==
    LET output == RmsOutput(x, eps, amb)
    IN  IF weight # NoTensor THEN TensorMul(output, weight) ELSE Ok(output)

(***************************************************************************)
(* The record of the most recent operation                                 *)
(***************************************************************************)
AutocastOff == [enabled |-> [d \in DeviceTypes |-> FALSE],
                gpu_dtype |-> "float16", cpu_dtype |-> "bfloat16"]

NoLayer == [cls |-> "none", weight |-> NoTensor, bias |-> NoTensor,
            eps |-> 0, normalized_shape |-> 0]

NoArgs == [key |-> "none", normalized_shape |-> 0, affine |-> FALSE,
           dtype |-> "none", device |-> "none"]

NoCall == [op |-> "none", x |-> NoTensor, w |-> NoTensor, eps |-> 0,
           res |-> NoResult, core |-> "none", cx |-> NoTensor, cw |-> NoTensor,
           cb |-> NoTensor, inner |-> AutocastOff, args |-> NoArgs]

(***************************************************************************)
(* Inputs                                                                  *)
(***************************************************************************)
\* element values, all representable in every dtype: 0, 1, -1 and 3
ElementValues == {0, Scale, -Scale, 3 * Scale}

\* eps as the python float passed to rms_norm: one below half the quantum of
\* the low-precision dtypes (as 1e-8 is for float16) and one representable in
\* every dtype (as the default 1e-05 is)
TinyEps == Quantum("float32")

DefaultEps == Quantum("bfloat16")

EpsValues == {TinyEps, DefaultEps}

ConstSlice(v, n) == [i \in 1..n |-> Fin(v)]

\* a non-constant weight vector: 1, 1/2, 1, ...
RampSlice(n) == [i \in 1..n |-> Fin(IF i % 2 = 1 THEN Scale ELSE Scale \div 2)]

(***************************************************************************)
(* Layer construction: lines 33-40, 60-67, 74-75                           *)
(***************************************************************************)
\* dtype=None is torch's default dtype, device=None the default device
ParamDType(dtype) == IF dtype = "none" THEN "float32" ELSE dtype

ParamDevice(device) == IF device = "none" THEN "cpu" ELSE device

\* torch.ones(normalized_shape, dtype=dtype, device=device)
Ones(normalized_shape, dtype, device) ==
    Tensor(ParamDType(dtype), ParamDevice(device), ConstSlice(Scale, normalized_shape))

\* torch.nn.LayerNorm.__init__: weight of ones and bias of zeros, or neither
LayerNorm_init(cls, normalized_shape, eps, elementwise_affine, dtype, device) ==
    [cls |-> cls,
     weight |-> IF elementwise_affine THEN Ones(normalized_shape, dtype, device)
                ELSE NoTensor,
     bias |-> IF elementwise_affine
              THEN Tensor(ParamDType(dtype), ParamDevice(device),
                          ConstSlice(0, normalized_shape))
              ELSE NoTensor,
     eps |-> eps, normalized_shape |-> normalized_shape]

\* RMSNorm.__init__, lines 61-67 (normalized_shape itself is not stored)
RMSNorm_init(cls, normalized_shape, eps, weight, dtype, device) ==
    [cls |-> cls,
     weight |-> IF weight THEN Ones(normalized_shape, dtype, device) ELSE NoTensor,
     bias |-> NoTensor,
     eps |-> eps, normalized_shape |-> 0]

\* mutant: the two RMS entries are swapped
NORM_CLASS_REGISTRY_Swapped ==
    [k \in {"layernorm", "low_precision_layernorm", "rmsnorm", "low_precision_rmsnorm"} |->
        CASE k = "layernorm"               -> "LayerNorm"
          [] k = "low_precision_layernorm" -> "LPLayerNorm"
          [] k = "rmsnorm"                 -> "LPRMSNorm"
          [] k = "low_precision_rmsnorm"   -> "RMSNorm"]

NORM_CLASS_REGISTRY ==
    [k \in {"layernorm", "low_precision_layernorm", "rmsnorm", "low_precision_rmsnorm"} |->
        CASE k = "layernorm"               -> "LayerNorm"
          [] k = "low_precision_layernorm" -> "LPLayerNorm"
          [] k = "rmsnorm"                 -> "RMSNorm"
          [] k = "low_precision_rmsnorm"   -> "LPRMSNorm"]

\* calling the class found in the registry
Instantiate(cls, normalized_shape, eps, affine, dtype, device) ==
    IF cls \in {"RMSNorm", "LPRMSNorm"}
    THEN RMSNorm_init(cls, normalized_shape, eps, affine, dtype, device)
    ELSE LayerNorm_init(cls, normalized_shape, eps, affine, dtype, device)

(***************************************************************************)
(* Forward passes                                                          *)
(***************************************************************************)
\* what one forward call did: its result, the dtype rms_norm returned, the
\* cast tensors, the autocast state inside the with block, and the autocast
\* state and the layer it leaves behind
Outcome(res, core, cx, cw, cb, inner, amb, self) ==
    [res |-> res, core |-> core, cx |-> cx, cw |-> cw, cb |-> cb,
     inner |-> inner, amb |-> amb, self |-> self]

\* mutant: the result is returned in the dtype it was computed in
ResultTo_NoCast(r, d) == r

\* mutant: the result is always returned as float32
ResultTo_Float32(r, d) == IF r.kind = "tensor" THEN Ok(To(r.t, "float32")) ELSE r

\* result.to(dtype=d) when there is a result
ResultTo(r, d) == IF r.kind = "tensor" THEN Ok(To(r.t, d)) ELSE r

\* RMSNorm.forward, lines 69-70
RMSNorm_forward(self, x, amb) ==
    LET xf == To(x, "float32")
        r  == rms_norm(xf, self.weight, self.eps, amb)
    IN  Outcome(ResultTo(r, x.dtype), r.t.dtype, xf, self.weight, NoTensor,
                amb, amb, self)

\* the cast of an optional parameter, lines 45, 46 and 79
CastParam(p, amb) == IF p # NoTensor THEN _cast_if_autocast_enabled(p, amb) ELSE Ok(p)

\* LPRMSNorm.forward, lines 77-81
LPRMSNorm_forward(self, x, amb) ==
    LET downcast_x      == _cast_if_autocast_enabled(x, amb)
        downcast_weight == CastParam(self.weight, amb)
        inner           == AutocastEnter(amb, x.device, FALSE)
        r               == rms_norm(downcast_x.t, downcast_weight.t, self.eps, inner)
    IN  IF downcast_x.kind # "tensor"
        THEN Outcome(downcast_x, "none", NoTensor, NoTensor, NoTensor, amb, amb, self)
        ELSE IF downcast_weight.kind # "tensor"
        THEN Outcome(downcast_weight, "none", downcast_x.t, NoTensor, NoTensor,
                     amb, amb, self)
        ELSE Outcome(ResultTo(r, x.dtype), r.t.dtype, downcast_x.t, downcast_weight.t,
                     NoTensor, inner, AutocastExit(inner, amb, x.device), self)

\* torch.nn.functional.layer_norm, lines 48-50: the results a build can give.
\* The model keeps the dtype and the device of the result, not its values.
\* Parameters of another dtype than the input are accepted by some kernels
\* and rejected by others.
layer_norm(x, normalized_shape, weight, bias, eps, amb) ==
    LET d      == OpDType(x, amb)
        params == {weight, bias} \ {NoTensor}
        out    == Ok(Tensor(d, x.device, <<>>))
    IN  IF normalized_shape # Len(x.vals) \/ \E p \in params : p.device # x.device
        THEN {Raise("RuntimeError")}
        ELSE IF d = x.dtype /\ \E p \in params : p.dtype # x.dtype
        THEN {out, Raise("RuntimeError")}
        ELSE {out}

\* LPLayerNorm.forward, lines 42-50
LPLayerNorm_forward(self, x, amb) ==
    LET module_device   == x.device
        downcast_x      == _cast_if_autocast_enabled(x, amb)
        downcast_weight == CastParam(self.weight, amb)
        downcast_bias   == CastParam(self.bias, amb)
        inner           == AutocastEnter(amb, module_device, FALSE)
    IN  IF downcast_x.kind # "tensor"
        THEN {Outcome(downcast_x, "none", NoTensor, NoTensor, NoTensor, amb, amb, self)}
        ELSE IF downcast_weight.kind # "tensor"
        THEN {Outcome(downcast_weight, "none", downcast_x.t, NoTensor, NoTensor,
                      amb, amb, self)}
        ELSE IF downcast_bias.kind # "tensor"
        THEN {Outcome(downcast_bias, "none", downcast_x.t, downcast_weight.t, NoTensor,
                      amb, amb, self)}
        ELSE {Outcome(r, "none", downcast_x.t, downcast_weight.t, downcast_bias.t,
                      inner, AutocastExit(inner, amb, module_device), self) :
                r \in layer_norm(downcast_x.t, self.normalized_shape, downcast_weight.t,
                                 downcast_bias.t, self.eps, inner)}

(***************************************************************************)
(* Spec: layers are built from the registry and called, while the caller   *)
(* changes the ambient autocast settings between calls                     *)
(***************************************************************************)
ConstructDTypes == {"none", "bfloat16", "float64"}

ConstructDevices == {"none", "cuda", "xla"}

\* input slices: all zero and (3, -1, 3, ...)
InputSlices ==
    {ConstSlice(0, SliceLen),
     [i \in 1..SliceLen |-> Fin(IF i % 2 = 1 THEN 3 * Scale ELSE -Scale)]}

ForwardInputs ==
    {Tensor(d, dev, vs) : d \in DTypes, dev \in DeviceTypes, vs \in InputSlices}

Init ==
    /\ registry = NORM_CLASS_REGISTRY
    /\ autocast = AutocastOff
    /\ layer = NoLayer
    /\ call = NoCall

\* NORM_CLASS_REGISTRY[key](normalized_shape, ...), eps left at its default;
\* normalized_shape is the trailing dimension of the inputs or 1, which
\* broadcasts in rms_norm and is rejected by layer_norm
Construct ==
    \E key \in DOMAIN registry, n \in {1, SliceLen}, affine \in BOOLEAN,
       dtype \in ConstructDTypes, device \in ConstructDevices :
        /\ layer = NoLayer
        /\ layer' = Instantiate(registry[key], n, DefaultEps, affine, dtype, device)
        /\ call' = [NoCall EXCEPT !.op = "construct", !.inner = autocast,
                       !.args = [key |-> key, normalized_shape |-> n, affine |-> affine,
                                 dtype |-> dtype, device |-> device]]
        /\ UNCHANGED <<registry, autocast>>

\* the layer is destroyed with the model that owns it
Destroy ==
    /\ layer # NoLayer
    /\ layer' = NoLayer
    /\ call' = [NoCall EXCEPT !.op = "del", !.inner = autocast]
    /\ UNCHANGED <<registry, autocast>>

\* the caller enters or leaves a torch.autocast context of the accelerator or
\* of the cpu
SetAutocastEnabled ==
    \E dev \in {"cuda", "cpu"}, e \in BOOLEAN :
        /\ autocast' = [autocast EXCEPT !.enabled[dev] = e]
        /\ autocast' # autocast
        /\ call' = [NoCall EXCEPT !.op = "autocast", !.inner = autocast']
        /\ UNCHANGED <<registry, layer>>

\* the caller configures the autocast dtype of the accelerator or of the cpu
SetAutocastDType ==
    \E d \in AutocastDTypes :
        /\ \/ autocast' = [autocast EXCEPT !.gpu_dtype = d]
           \/ autocast' = [autocast EXCEPT !.cpu_dtype = d]
        /\ autocast' # autocast
        /\ call' = [NoCall EXCEPT !.op = "autocast", !.inner = autocast']
        /\ UNCHANGED <<registry, layer>>

Record(op, x, o) ==
    [NoCall EXCEPT !.op = op, !.x = x, !.res = o.res, !.core = o.core, !.cx = o.cx,
                   !.cw = o.cw, !.cb = o.cb, !.inner = o.inner]

ForwardRMSNorm ==
    /\ layer.cls = "RMSNorm"
    /\ \E x \in ForwardInputs :
          \E o \in {RMSNorm_forward(layer, x, autocast)} :
              /\ call' = Record("RMSNorm.forward", x, o)
              /\ autocast' = o.amb
              /\ layer' = o.self
    /\ UNCHANGED registry

ForwardLPRMSNorm ==
    /\ layer.cls = "LPRMSNorm"
    /\ \E x \in ForwardInputs :
          \E o \in {LPRMSNorm_forward(layer, x, autocast)} :
              /\ call' = Record("LPRMSNorm.forward", x, o)
              /\ autocast' = o.amb
              /\ layer' = o.self
    /\ UNCHANGED registry

ForwardLPLayerNorm ==
    /\ layer.cls = "LPLayerNorm"
    /\ \E x \in ForwardInputs :
          \E o \in LPLayerNorm_forward(layer, x, autocast) :
              /\ call' = Record("LPLayerNorm.forward", x, o)
              /\ autocast' = o.amb
              /\ layer' = o.self
    /\ UNCHANGED registry

Next ==
    \/ Construct
    \/ Destroy
    \/ SetAutocastEnabled
    \/ SetAutocastDType
    \/ ForwardRMSNorm
    \/ ForwardLPRMSNorm
    \/ ForwardLPLayerNorm

Spec == Init /\ [][Next]_vars

(***************************************************************************)
(* SpecRms: rms_norm as a pure function, called with autocast disabled     *)
(***************************************************************************)
RmsInputs ==
    {Tensor(d, "cpu", [i \in 1..SliceLen |-> Fin(f[i])]) :
        d \in DTypes, f \in [1..SliceLen -> ElementValues]}

RmsWeights(x) ==
    {NoTensor, Tensor(x.dtype, "cpu", ConstSlice(Scale, SliceLen)),
     Tensor("float32", "cpu", RampSlice(SliceLen))}

InitRms ==
    /\ registry = NORM_CLASS_REGISTRY
    /\ autocast = AutocastOff
    /\ layer = NoLayer
    /\ \E x \in RmsInputs : \E w \in RmsWeights(x) : \E e \in EpsValues :
          call = [NoCall EXCEPT !.op = "args", !.x = x, !.w = w, !.eps = e]

RmsNormCall ==
    /\ call.op = "args"
    /\ LET r == rms_norm(call.x, call.w, call.eps, autocast)
       IN  call' = [call EXCEPT !.op = "rms_norm", !.res = r, !.core = r.t.dtype]
    /\ UNCHANGED <<registry, autocast, layer>>

NextRms == RmsNormCall

SpecRms == InitRms /\ [][NextRms]_vars

(***************************************************************************)
(* SpecCast: _cast_if_autocast_enabled as a pure function of the tensor    *)
(* and of the ambient autocast settings                                    *)
(***************************************************************************)
\* torch.set_autocast_gpu_dtype and torch.set_autocast_cpu_dtype take any dtype
AutocastStates ==
    [enabled : [DeviceTypes -> BOOLEAN], gpu_dtype : DTypes, cpu_dtype : DTypes]

InitCast ==
    /\ registry = NORM_CLASS_REGISTRY
    /\ autocast \in AutocastStates
    /\ layer = NoLayer
    /\ \E x \in ForwardInputs : call = [NoCall EXCEPT !.op = "args", !.x = x]

CastCall ==
    /\ call.op = "args"
    /\ call' = [call EXCEPT !.op = "cast",
                            !.res = _cast_if_autocast_enabled(call.x, autocast)]
    /\ UNCHANGED <<registry, autocast, layer>>

NextCast == CastCall

SpecCast == InitCast /\ [][NextCast]_vars

(***************************************************************************)
(* Claims                                                                  *)
(***************************************************************************)
RMSForwardOps == {"RMSNorm.forward", "LPRMSNorm.forward"}

LPForwardOps == {"LPLayerNorm.forward", "LPRMSNorm.forward"}

Supported == {"cuda", "cpu"}

\* the dtype the autocast policy gives a tensor on a supported device
PolicyDType(t) == IF t.device = "cuda" THEN autocast.gpu_dtype ELSE autocast.cpu_dtype

\* C1: whenever RMSNorm.forward or LPRMSNorm.forward returns, the dtype of the
\* result is the dtype of the input x, whatever dtype rms_norm computed in;
\* and it does return when input and weight are on one supported device.
C1_OutputDTypeIsInputDType ==
    call.op \in RMSForwardOps =>
        /\ call.res.kind = "tensor" =>
              /\ call.res.t.dtype = call.x.dtype
              /\ call.res.t.device = call.x.device
        /\ (call.x.device \in Supported
              /\ (layer.weight = NoTensor \/ layer.weight.device = call.x.device))
           => call.res.kind = "tensor"

C1_Witness ==
    /\ call.op = "LPRMSNorm.forward"
    /\ is_autocast_enabled(autocast)
    /\ layer.weight # NoTensor
    /\ call.res.kind = "tensor"
    /\ call.core # call.x.dtype
    /\ call.res.t.dtype = "float64"

\* C2: with autocast disabled the precision cast returns its argument as it
\* is (dtype, device and values), on every device type, and raises nothing.
C2_CastIsIdentityWhenDisabled ==
    (call.op = "cast" /\ ~is_autocast_enabled(autocast)) => call.res = Ok(call.x)

C2_Witness ==
    /\ call.op = "cast"
    /\ ~is_autocast_enabled(autocast)
    /\ autocast.enabled["cpu"]
    /\ call.x.device = "xla"
    /\ call.res = Ok(call.x)

\* C3: with autocast enabled the precision cast returns a tensor of the
\* accelerator autocast dtype for a cuda tensor and of the cpu autocast dtype
\* for a cpu tensor, on the same device, whatever the dtype of the argument.
C3_CastFollowsDevicePolicy ==
    (call.op = "cast" /\ is_autocast_enabled(autocast) /\ call.x.device \in Supported) =>
        /\ call.res.kind = "tensor"
        /\ call.res.t.device = call.x.device
        /\ call.x.device = "cuda" => call.res.t.dtype = autocast.gpu_dtype
        /\ call.x.device = "cpu" => call.res.t.dtype = autocast.cpu_dtype

C3_Witness ==
    /\ call.op = "cast"
    /\ is_autocast_enabled(autocast)
    /\ call.x.device = "cpu"
    /\ autocast.gpu_dtype = "float16"
    /\ autocast.cpu_dtype = "bfloat16"
    /\ call.x.dtype = "float32"
    /\ call.res.kind = "tensor"
    /\ call.res.t.dtype = "bfloat16"

\* the tensors a low-precision forward passes through the precision cast
CastTensors == {call.x, layer.weight, layer.bias} \ {NoTensor}

\* C4: with autocast enabled, a forward call of LPLayerNorm or LPRMSNorm whose
\* input, weight or bias is on a device type other than cuda and cpu ends
\* with NotImplementedError: the with block is not entered, no normalization
\* runs and no tensor is returned.
C4_UnsupportedDeviceRaises ==
    (/\ call.op \in LPForwardOps
     /\ is_autocast_enabled(autocast)
     /\ \E t \in CastTensors : t.device \notin Supported) =>
        /\ call.res = Raise("NotImplementedError")
        /\ call.core = "none"
        /\ call.inner = autocast

C4_Witness ==
    /\ call.op = "LPRMSNorm.forward"
    /\ is_autocast_enabled(autocast)
    /\ call.x.device = "cuda"
    /\ layer.weight # NoTensor
    /\ layer.weight.device = "xla"
    /\ call.res = Raise("NotImplementedError")

CastDType(t) == IF is_autocast_enabled(autocast) THEN PolicyDType(t) ELSE t.dtype

C6_RegistryAndOnesWeight ==
    /\ DOMAIN registry =
          {"layernorm", "low_precision_layernorm", "rmsnorm", "low_precision_rmsnorm"}
    /\ registry["layernorm"] = "LayerNorm"
    /\ registry["low_precision_layernorm"] = "LPLayerNorm"
    /\ registry["rmsnorm"] = "RMSNorm"
    /\ registry["low_precision_rmsnorm"] = "LPRMSNorm"
    /\ (/\ call.op = "construct"
        /\ call.args.key = "rmsnorm"
        /\ call.args.affine
        /\ call.args.dtype = "none"
        /\ call.args.device = "none") =>
          /\ layer.cls = "RMSNorm"
          /\ layer.weight # NoTensor
          /\ Len(layer.weight.vals) = call.args.normalized_shape
          /\ \A i \in 1..Len(layer.weight.vals) : layer.weight.vals[i] = Fin(Scale)

C6_Witness ==
    /\ call.op = "construct"
    /\ call.args.key = "rmsnorm"
    /\ call.args.affine
    /\ call.args.dtype = "none"
    /\ call.args.device = "none"
    /\ call.args.normalized_shape = SliceLen
    /\ Len(layer.weight.vals) = SliceLen
    /\ autocast # AutocastOff

RECURSIVE SumSquares(_, _)
SumSquares(vs, i) == IF i = 0 THEN 0 ELSE vs[i].v * vs[i].v + SumSquares(vs, i - 1)

\* the factor of element i: the weight, or 1 when there is none
WeightAt(w, i) == IF w = NoTensor THEN Scale ELSE At(w.vals, i).v

\* Whether out is within tol of the exact x * w / sqrt(mean(x^2) + eps), for
\* the slice vs and element i: |out| - tol <= |x| |w| sqrt(n / d) <= |out| + tol
\* with d = sum(x^2) + n * eps, compared after squaring, in integers.
NearReference(out, vs, i, w, eps, tol) ==
    LET n   == Len(vs)
        d   == SumSquares(vs, n) + eps * n * Scale
        num == vs[i].v * vs[i].v * w * w * n
        hi  == Abs(out) + tol
        lo  == Abs(out) - tol
    IN  /\ Sgn(out) \in {0, Sgn(vs[i].v) * Sgn(w)}
        /\ num <= hi * hi * d
        /\ lo > 0 => lo * lo * d <= num

\* the rounding tolerance: two quanta of the dtype rms_norm computes in
Tolerance == 2 * Quantum(call.x.dtype)

RmsResultIsReference ==
    /\ call.res.kind = "tensor"
    /\ \A i \in 1..Len(call.x.vals) :
          /\ IsFinite(call.res.t.vals[i])
          /\ NearReference(call.res.t.vals[i].v, call.x.vals, i, WeightAt(call.w, i),
                           call.eps, Tolerance)
          /\ SumSquares(call.x.vals, Len(call.x.vals)) = 0 => call.res.t.vals[i] = Fin(0)

\* C7 as claimed: for every input and every eps > 0 the result is the
\* reference value, and an all-zero slice gives finite zeros.
C7_RmsNormForEveryInputAndEps == call.op = "rms_norm" => RmsResultIsReference

\* no square of an element overflows the dtype of the input
SquaresFinite ==
    \A i \in 1..Len(call.x.vals) :
        call.x.vals[i].v * call.x.vals[i].v <= MaxFinite(call.x.dtype) * Scale

\* mean(x^2) + eps is not rounded to zero in the dtype of the input
DenominatorNonzero ==
    \/ SumSquares(call.x.vals, Len(call.x.vals)) > 0
    \/ RndFrac(call.eps, 1, call.x.dtype) # Fin(0)

\* C7, amended: when no square overflows the compute dtype and mean(x^2) + eps
\* does not round to zero in it, rms_norm returns input / sqrt(mean(input^2)
\* + eps) times the weight (times 1 without one) up to rounding, and an
\* all-zero slice gives finite zeros.
C7_RmsNormWithinRange ==
    (call.op = "rms_norm" /\ SquaresFinite /\ DenominatorNonzero) => RmsResultIsReference

C7_Witness ==
    /\ call.op = "rms_norm"
    /\ call.x.dtype = "float16"
    /\ call.eps = DefaultEps
    /\ call.w # NoTensor
    /\ SumSquares(call.x.vals, Len(call.x.vals)) = 0
    /\ \A i \in 1..Len(call.x.vals) : call.res.t.vals[i] = Fin(0)

\* what the precision cast is to make of a tensor or of an absent parameter
CastOf(t) ==
    IF t = NoTensor \/ ~is_autocast_enabled(autocast) THEN t ELSE To(t, PolicyDType(t))

\* C8: unless it ends with the unsupported-device error, LPLayerNorm.forward
\* has cast input, weight and bias each by its own device (None stays None),
\* has run layer_norm with autocast disabled for the device type of the
\* input, and returns the dtype of the cast input: the autocast dtype when
\* autocast was enabled, the dtype of the input otherwise.
C8_LPLayerNormCastsAndDisables ==
    (call.op = "LPLayerNorm.forward" /\ call.res.kind # "NotImplementedError") =>
        /\ call.cx = CastOf(call.x)
        /\ call.cw = CastOf(layer.weight)
        /\ call.cb = CastOf(layer.bias)
        /\ ~call.inner.enabled[call.x.device]
        /\ \A dev \in DeviceTypes \ {call.x.device} :
              call.inner.enabled[dev] = autocast.enabled[dev]
        /\ call.res.kind = "tensor" =>
              /\ call.res.t.dtype = call.cx.dtype
              /\ call.res.t.dtype = CastDType(call.x)

C8_Witness ==
    /\ call.op = "LPLayerNorm.forward"
    /\ is_autocast_enabled(autocast)
    /\ call.x.device = "cuda"
    /\ call.x.dtype = "float32"
    /\ layer.weight # NoTensor
    /\ call.cw.dtype = autocast.gpu_dtype
    /\ call.res.kind = "tensor"
    /\ call.res.t.dtype = autocast.gpu_dtype

\* C9: for the weight, eps and input of a LPRMSNorm.forward call that returns,
\* RMSNorm.forward returns the same dtype; and with autocast disabled and a
\* float32 input the two forward passes give the same result.
C9_LPRMSNormAgreesWithRMSNorm ==
    call.op = "LPRMSNorm.forward" =>
        \A o \in {RMSNorm_forward(layer, call.x, autocast)} :
            /\ call.res.kind = "tensor" =>
                  /\ o.res.kind = "tensor"
                  /\ o.res.t.dtype = call.res.t.dtype
            /\ (~is_autocast_enabled(autocast) /\ call.x.dtype = "float32") =>
                  /\ call.cx = call.x
                  /\ o.res = call.res

C9_Witness ==
    /\ call.op = "LPRMSNorm.forward"
    /\ ~is_autocast_enabled(autocast)
    /\ call.x.dtype = "float32"
    /\ layer.weight # NoTensor
    /\ call.res.kind = "tensor"
    /\ call.res.t.vals[1] # Fin(0)
    /\ call.res = RMSNorm_forward(layer, call.x, autocast).res

\* C10: a forward call of LPLayerNorm or LPRMSNorm, however it ends, leaves
\* the ambient autocast flags and dtypes and the parameters of the layer as
\* they were before the call.
C10_ForwardLeavesAutocastAndLayer ==
    [][call'.op \in LPForwardOps => (autocast' = autocast /\ layer' = layer)]_vars

C10_Witness ==
    /\ call.op \in LPForwardOps
    /\ call.res.kind = "tensor"
    /\ call.inner # autocast
    /\ autocast.enabled[call.x.device]
====
